---- MODULE Spec2Model ----
(***************************************************************************)
(* Model of scripts/createTokenList.js: one run of mergeAndVerifyAssets    *)
(* reconciles the asset files of a directory into the manifest file        *)
(* tokenList.json.                                                         *)
(*                                                                         *)
(* A JSON string is the sequence of its characters (one-character          *)
(* strings); a JSON object is a function from its keys to their values.    *)
(* Every value of the modelled records is a JSON string.                   *)
(***************************************************************************)
EXTENDS Integers, Sequences, FiniteSets, TLC

VARIABLES
    manifest,    \* parsed content of tokenList.json: [version, assets]
    directory,   \* the .json files of the assets directory, in readdirSync order
    last,        \* the most recent run since the directory was last edited
    writes       \* number of times the script has written the manifest

vars == <<manifest, directory, last, writes>>

-----------------------------------------------------------------------------
(* Bounds of the model *)

MaxFiles == 2        \* files in the assets directory
MaxWrites == 2       \* versions of the manifest written in one behaviour

-----------------------------------------------------------------------------
(* Characters and strings *)

Digits == <<"0","1","2","3","4","5","6","7","8","9">>
Uppers == <<"A","B","C","D","E","F","G","H","I","J","K","L","M",
            "N","O","P","Q","R","S","T","U","V","W","X","Y","Z">>
Lowers == <<"a","b","c","d","e","f","g","h","i","j","k","l","m",
            "n","o","p","q","r","s","t","u","v","w","x","y","z">>

Range(s) == { s[i] : i \in DOMAIN s }
IndexOf(s, c) == CHOOSE i \in DOMAIN s : s[i] = c

Digit == Range(Digits)
Upper == Range(Uppers)
Lower == Range(Lowers)

UpperOrDigit == Upper \cup Digit
Alphanumeric == Upper \cup Lower \cup Digit

Rep(c, n) == [i \in 1..n |-> c]

\* the value of a property the object does not have
Undefined == <<"undefined">>

\* obj[key] of JavaScript
Get(obj, key) == IF key \in DOMAIN obj THEN obj[key] ELSE Undefined

\* UTF-16 code unit of a character
CodePoint(c) ==
    IF c \in Digit THEN 47 + IndexOf(Digits, c)
    ELSE IF c \in Upper THEN 64 + IndexOf(Uppers, c)
    ELSE IF c \in Lower THEN 96 + IndexOf(Lowers, c)
    ELSE IF c = "." THEN 46
    ELSE 34

\* s <= t in code-unit order
RECURSIVE CodeUnitLeq(_, _)
CodeUnitLeq(s, t) ==
    IF s = << >> THEN TRUE
    ELSE IF t = << >> THEN FALSE
    ELSE IF CodePoint(Head(s)) # CodePoint(Head(t))
         THEN CodePoint(Head(s)) < CodePoint(Head(t))
    ELSE CodeUnitLeq(Tail(s), Tail(t))

\* Collation of the default locale: digits before letters, letters in
\* alphabetical order whatever their case (primary weight), and at equal
\* primary weights a lower-case letter before its upper-case one.
PrimaryWeight(c) ==
    IF c \in Digit THEN IndexOf(Digits, c)
    ELSE IF c \in Upper THEN 10 + IndexOf(Uppers, c)
    ELSE IF c \in Lower THEN 10 + IndexOf(Lowers, c)
    ELSE 0

TertiaryWeight(c) == IF c \in Upper THEN 1 ELSE 0

\* the weight of a character at a level of the collation
Weight(level, c) == IF level = 1 THEN PrimaryWeight(c) ELSE TertiaryWeight(c)

\* the order of s and t from position i on by their weights at a level:
\* -1, 0 or 1
RECURSIVE CompareWeights(_, _, _, _)
CompareWeights(level, s, t, i) ==
    IF i > Len(s) /\ i > Len(t) THEN 0
    ELSE IF i > Len(s) THEN -1
    ELSE IF i > Len(t) THEN 1
    ELSE IF Weight(level, s[i]) < Weight(level, t[i]) THEN -1
    ELSE IF Weight(level, s[i]) > Weight(level, t[i]) THEN 1
    ELSE CompareWeights(level, s, t, i + 1)

\* String.prototype.localeCompare: negative, zero or positive
LocaleCompare(s, t) ==
    LET p == CompareWeights(1, s, t, 1)
    IN  IF p # 0 THEN p ELSE CompareWeights(2, s, t, 1)

\* String(undefined), what localeCompare compares with when its argument is
\* undefined
UndefinedString == <<"u","n","d","e","f","i","n","e","d">>

-----------------------------------------------------------------------------
(* assetSchema *)

NameMinLength == 4
NameMaxLength == 30
OrgMinLength == 5
OrgMaxLength == 30
CommentMaxLength == 150
AddressTailLength == 55
CodeMaxLength == 12

Properties ==
    {"name", "contract", "code", "issuer", "org", "domain", "icon",
     "decimals", "comment"}

\* ^<first>[A-Z0-9]{55}$
AddressPattern(first, s) ==
    /\ Len(s) = 1 + AddressTailLength
    /\ s[1] = first
    /\ \A i \in 2..Len(s) : s[i] \in UpperOrDigit

\* ^[A-Za-z0-9]{1,12}$
CodePattern(s) ==
    /\ Len(s) \in 1..CodeMaxLength
    /\ \A i \in 1..Len(s) : s[i] \in Alphanumeric

\* The constraint of one property on a value that is a JSON string. The
\* modelled records carry no domain and no icon.
PropertyValid(key, v) ==
    CASE key = "name" -> Len(v) >= NameMinLength /\ Len(v) <= NameMaxLength
      [] key = "org" -> Len(v) >= OrgMinLength /\ Len(v) <= OrgMaxLength
      [] key = "contract" -> AddressPattern("C", v)
      [] key = "issuer" -> AddressPattern("G", v)
      [] key = "code" -> CodePattern(v)
      [] key = "comment" -> Len(v) <= CommentMaxLength
      [] key = "decimals" -> FALSE      \* "type": "integer", and v is a string
      [] OTHER -> TRUE

\* validate(assetData) of the compiled schema
Validate(obj) ==
    /\ DOMAIN obj \subseteq Properties
    /\ {"name", "org"} \subseteq DOMAIN obj
    /\ \/ "contract" \in DOMAIN obj
       \/ {"code", "issuer"} \subseteq DOMAIN obj
    /\ \A key \in DOMAIN obj : PropertyValid(key, obj[key])

-----------------------------------------------------------------------------
(* The files of the assets directory *)

ContractA == <<"C">> \o Rep("A", AddressTailLength)
Contract0 == <<"C">> \o Rep("0", AddressTailLength)
IssuerG == <<"G">> \o Rep("A", AddressTailLength)

TokenOne == <<"T","o","k","e","n","O","n","e">>
TokenTwo == <<"T","o","k","e","n","T","w","o">>
OrgOne == <<"O","r","g","O","n","e">>
OrgTwo == <<"O","r","g","T","w","o">>

\* what JSON.parse makes of a file that holds no object but a falsy value
JsonNull == [falsy |-> TRUE]
\* a file that cannot be read or is not JSON
Malformed == [malformed |-> TRUE]

FileNames ==
    {"a.json", "a2.json", "a3.json", "b.json", "i.json", "i2.json",
     "badA.json", "badN.json", "null.json", "broken.json"}

\* the content of each file, parsed
FileContent(file) ==
    CASE file = "a.json" ->
            [contract |-> ContractA, name |-> TokenOne, org |-> OrgOne,
             comment |-> <<"x">>]
      [] file = "a2.json" ->
            [contract |-> ContractA, name |-> TokenOne, org |-> OrgTwo]
      [] file = "a3.json" ->
            [contract |-> ContractA, name |-> TokenTwo, org |-> OrgOne]
      [] file = "b.json" ->
            [contract |-> Contract0, name |-> TokenTwo, org |-> OrgOne]
      [] file = "i.json" ->
            [code |-> <<"U","S","D">>, issuer |-> IssuerG, name |-> TokenOne,
             org |-> OrgOne]
      [] file = "i2.json" ->
            [code |-> <<"E","U","R">>, issuer |-> IssuerG, name |-> TokenTwo,
             org |-> OrgOne]
      [] file = "badA.json" ->
            [contract |-> ContractA, name |-> <<"T","o","k">>, org |-> OrgTwo]
      [] file = "badN.json" ->
            [name |-> TokenTwo, org |-> OrgTwo, decimals |-> <<"7">>]
      [] file = "null.json" -> JsonNull
      [] OTHER -> Malformed

-----------------------------------------------------------------------------
(* readJsonFile, JSON.stringify, Object.assign *)

\* readJsonFile(filePath): the parsed value, or an Error thrown
ReadThrows(file) == FileContent(file) = Malformed
readJsonFile(file) == FileContent(file)

\* JSON.stringify of a property value: undefined for undefined, the quoted
\* text for a string
JSONStringify(v) ==
    IF v = Undefined THEN Undefined ELSE <<"\"">> \o v \o <<"\"">>

\* a variant of ObjectAssign that replaces the target by the source
ObjectReplace(target, source) == source

\* Object.assign(target, source)
ObjectAssign(target, source) ==
    [key \in DOMAIN target \cup DOMAIN source |->
        IF key \in DOMAIN source THEN source[key] ELSE target[key]]

-----------------------------------------------------------------------------
(* incrementVersion *)

MaxMajor == 999
MaxPart == 9

\* version.split('.')
RECURSIVE Split(_, _)
Split(s, sep) ==
    IF \A i \in DOMAIN s : s[i] # sep THEN <<s>>
    ELSE LET i == CHOOSE j \in DOMAIN s :
                    s[j] = sep /\ \A k \in 1..(j - 1) : s[k] # sep
         IN  <<SubSeq(s, 1, i - 1)>> \o Split(SubSeq(s, i + 1, Len(s)), sep)

\* parseInt(num, 10) of a string of decimal digits
RECURSIVE ParseInt(_)
ParseInt(s) ==
    IF s = << >> THEN 0
    ELSE 10 * ParseInt(SubSeq(s, 1, Len(s) - 1))
         + (IndexOf(Digits, s[Len(s)]) - 1)

\* `${n}` of a non-negative integer
RECURSIVE NumberToString(_)
NumberToString(n) ==
    IF n < 10 THEN <<Digits[n + 1]>>
    ELSE NumberToString(n \div 10) \o <<Digits[(n % 10) + 1]>>

Min(a, b) == IF a < b THEN a ELSE b

\* the carry of patch into minor and of minor into major
Carry(major, minor, patch) ==
    IF patch + 1 > MaxPart
    THEN IF minor + 1 > MaxPart
         THEN <<major + 1, 0, 0>>
         ELSE <<major, minor + 1, 0>>
    ELSE <<major, minor, patch + 1>>

incrementVersion(version) ==
    LET parts == Split(version, ".")
        c == Carry(ParseInt(parts[1]), ParseInt(parts[2]), ParseInt(parts[3]))
        major == Min(c[1], MaxMajor)
    IN  NumberToString(major) \o <<".">> \o NumberToString(c[2]) \o <<".">>
        \o NumberToString(c[3])

-----------------------------------------------------------------------------
(* mergeAndVerifyAssets: the loop over the files of the directory *)

\* existingAssetsList.assets.find(asset => asset.contract === contract):
\* the index of the first such asset, 0 when there is none
Find(assets, contract) ==
    IF \E i \in DOMAIN assets : Get(assets[i], "contract") = contract
    THEN CHOOSE i \in DOMAIN assets :
            /\ Get(assets[i], "contract") = contract
            /\ \A j \in 1..(i - 1) : Get(assets[j], "contract") # contract
    ELSE 0

\* Object.keys(assetData).some(key => JSON.stringify(assetData[key]) !==
\*                                    JSON.stringify(existingAsset[key]))
HasChanged(assetData, existingAsset) ==
    \E key \in DOMAIN assetData :
        JSONStringify(assetData[key]) # JSONStringify(Get(existingAsset, key))

\* the asset of a valid file is merged into the list: updated or pushed
MergeAsset(st, assetData) ==
    LET i == Find(st.assets, Get(assetData, "contract"))
    IN  IF i # 0
        THEN IF HasChanged(assetData, st.assets[i])
             THEN [st EXCEPT !.changesDetected = TRUE,
                             !.assets[i] = ObjectAssign(@, assetData)]
             ELSE st
        ELSE [st EXCEPT !.changesDetected = TRUE,
                        !.assets = Append(@, assetData)]

\* a variant of ProcessFile that records the contract of a file only once
\* the file has passed validation
ProcessFileSeenWhenValid(st, file) ==
    IF ReadThrows(file) THEN [st EXCEPT !.thrown = TRUE]
    ELSE LET assetData == readJsonFile(file)
         IN  IF assetData = JsonNull THEN st
             ELSE IF ~Validate(assetData) THEN st
             ELSE MergeAsset([st EXCEPT !.contractsInDirectory =
                                  @ \cup {Get(assetData, "contract")}],
                             assetData)

\* a variant of ProcessFile that does not skip the files that fail validation
ProcessFileNoSkip(st, file) ==
    IF ReadThrows(file) THEN [st EXCEPT !.thrown = TRUE]
    ELSE LET assetData == readJsonFile(file)
         IN  IF assetData = JsonNull THEN st
             ELSE MergeAsset([st EXCEPT !.contractsInDirectory =
                                  @ \cup {Get(assetData, "contract")}],
                             assetData)

\* one iteration of the loop. st.thrown: readJsonFile threw, and since the
\* loop catches nothing the error leaves mergeAndVerifyAssets.
ProcessFile(st, file) ==
    IF ReadThrows(file) THEN [st EXCEPT !.thrown = TRUE]
    ELSE LET assetData == readJsonFile(file)
         IN  IF assetData = JsonNull THEN st
             ELSE LET seen == [st EXCEPT !.contractsInDirectory =
                                   @ \cup {Get(assetData, "contract")}]
                  IN  IF ~Validate(assetData) THEN seen
                      ELSE MergeAsset(seen, assetData)

\* the state of the loop after the first n files
RECURSIVE Loop(_, _, _)
Loop(existing, files, n) ==
    IF n = 0
    THEN [assets |-> existing, contractsInDirectory |-> {},
          changesDetected |-> FALSE, thrown |-> FALSE]
    ELSE LET st == Loop(existing, files, n - 1)
         IN  IF st.thrown THEN st ELSE ProcessFile(st, files[n])

\* the deletions computed after the loop
ContractsToDelete(existing, contractsInDirectory) ==
    { Get(existing[i], "contract") : i \in DOMAIN existing }
        \ contractsInDirectory

RECURSIVE Filter(_, _)
Filter(assets, toDelete) ==
    IF assets = << >> THEN << >>
    ELSE IF Get(Head(assets), "contract") \in toDelete
         THEN Filter(Tail(assets), toDelete)
         ELSE <<Head(assets)>> \o Filter(Tail(assets), toDelete)

\* the list and the flag when the run reaches `if (changesDetected)`
Reconcile(existing, files) ==
    LET st == Loop(existing, files, Len(files))
        toDelete == ContractsToDelete(existing, st.contractsInDirectory)
    IN  IF st.thrown THEN st
        ELSE IF toDelete # {}
             THEN [st EXCEPT !.changesDetected = TRUE,
                             !.assets = Filter(@, toDelete)]
             ELSE st

-----------------------------------------------------------------------------
(* mergeAndVerifyAssets: the sort and the write *)

HasContract(asset) == Get(asset, "contract") # Undefined

\* (a, b) => a.contract.localeCompare(b.contract) orders the assets by these
\* keys when it does not throw: a.contract is a string then, and
\* localeCompare turns an undefined b.contract into the string "undefined"
SortKey(asset) == IF HasContract(asset) THEN asset.contract ELSE UndefinedString

\* a stable insertion sort on the sort keys
RECURSIVE Insert(_, _)
Insert(sorted, asset) ==
    IF sorted = << >> THEN <<asset>>
    ELSE IF LocaleCompare(SortKey(sorted[Len(sorted)]), SortKey(asset)) <= 0
         THEN Append(sorted, asset)
         ELSE Append(Insert(SubSeq(sorted, 1, Len(sorted) - 1), asset),
                     sorted[Len(sorted)])

RECURSIVE SortAssets(_)
SortAssets(assets) ==
    IF assets = << >> THEN << >>
    ELSE Insert(SortAssets(SubSeq(assets, 1, Len(assets) - 1)),
                assets[Len(assets)])

\* Whether assets.sort(...) can throw the TypeError of
\* undefined.localeCompare: the comparator is called when there are two
\* assets or more, and in which order Array.prototype.sort passes a pair to
\* it is left to the engine. Two assets without a contract are compared with
\* each other by every engine.
SortThrowOutcomes(assets) ==
    LET without == { i \in DOMAIN assets : ~HasContract(assets[i]) }
    IN  IF Len(assets) < 2 \/ without = {} THEN {FALSE}
        ELSE IF Cardinality(without) >= 2 THEN {TRUE}
        ELSE {FALSE, TRUE}

-----------------------------------------------------------------------------
(* The state machine *)

InitVersion == <<"1", ".", "0", ".", "0">>

NoRun ==
    [ran |-> FALSE, pre |-> [version |-> << >>, assets |-> << >>],
     outcome |-> "none"]

Init ==
    /\ manifest = [version |-> InitVersion, assets |-> << >>]
    /\ directory = << >>
    /\ last = NoRun
    /\ writes = 0

\* existingAssetsList && Array.isArray(existingAssetsList.assets)
ExistingListValid(list) == "assets" \in DOMAIN list

\* node scripts/createTokenList.js: one run of mergeAndVerifyAssets over the
\* .json files of the directory. The write of the manifest succeeds.
RunScript ==
    /\ writes < MaxWrites
    /\ UNCHANGED directory
    /\ \E r \in {Reconcile(manifest.assets, directory)} :
         \E sortThrows \in SortThrowOutcomes(r.assets) :
            \E outcome \in {IF ~ExistingListValid(manifest) THEN "invalidList"
                            ELSE IF r.thrown THEN "readThrown"
                            ELSE IF ~r.changesDetected THEN "unchanged"
                            ELSE IF sortThrows THEN "sortThrown"
                            ELSE "written"} :
                /\ manifest' =
                        IF outcome = "written"
                        THEN [version |-> incrementVersion(manifest.version),
                              assets |-> SortAssets(r.assets)]
                        ELSE manifest
                /\ writes' = IF outcome = "written" THEN writes + 1
                                                     ELSE writes
                /\ last' = [ran |-> TRUE, pre |-> manifest,
                            outcome |-> outcome]

\* The curator adds a file to the directory. Every listing order is reached
\* by adding the files in that order.
AddFile ==
    /\ Len(directory) < MaxFiles
    /\ \E file \in FileNames \ Range(directory) :
         directory' = Append(directory, file)
    /\ last' = NoRun
    /\ UNCHANGED <<manifest, writes>>

\* the curator removes a file from the directory
RemoveFile ==
    /\ \E pos \in DOMAIN directory :
         directory' = SubSeq(directory, 1, pos - 1)
                      \o SubSeq(directory, pos + 1, Len(directory))
    /\ last' = NoRun
    /\ UNCHANGED <<manifest, writes>>

Next == RunScript \/ AddFile \/ RemoveFile

Spec == Init /\ [][Next]_vars

-----------------------------------------------------------------------------
(* incrementVersion on every version: one run, which adds a.json to an empty
   list and so writes the incremented version *)

VersionOf(major, minor, patch) ==
    NumberToString(major) \o <<".">> \o NumberToString(minor) \o <<".">>
    \o NumberToString(patch)

InitVersions ==
    /\ \E major \in 0..MaxMajor : \E minor \in 0..MaxPart :
         \E patch \in 0..MaxPart :
            manifest = [version |-> VersionOf(major, minor, patch),
                        assets |-> << >>]
    /\ directory = <<"a.json">>
    /\ last = NoRun
    /\ writes = MaxWrites - 1

SpecVersion == InitVersions /\ [][RunScript]_vars

-----------------------------------------------------------------------------
(* What the properties speak of *)

\* the file is an asset record: it parses to an object
Records ==
    { file \in FileNames :
        ~ReadThrows(file) /\ readJsonFile(file) # JsonNull }
ValidRecords == { file \in Records : Validate(readJsonFile(file)) }

IsRecord(file) == file \in Records
IsValidRecord(file) == file \in ValidRecords
IsInvalidRecord(file) == file \in Records \ ValidRecords

ContractsOf(assets) ==
    { Get(assets[i], "contract") : i \in DOMAIN assets } \ {Undefined}

HasEntry(assets, contract) ==
    \E i \in DOMAIN assets : Get(assets[i], "contract") = contract

EntryOf(assets, contract) == assets[Find(assets, contract)]

\* some file of the directory carries the contract
Carried(contract) ==
    \E n \in DOMAIN directory :
        /\ IsRecord(directory[n])
        /\ Get(readJsonFile(directory[n]), "contract") = contract

\* the last run: the loop after n files, and the list and flag it reconciled
LoopAt(n) == Loop(last.pre.assets, directory, n)
Reconciled == Reconcile(last.pre.assets, directory)

\* the triple of numbers a version of the form M.m.p stands for
Triple(version) ==
    LET parts == Split(version, ".")
    IN  <<ParseInt(parts[1]), ParseInt(parts[2]), ParseInt(parts[3])>>

\* triple s is lower than triple t in (major, minor, patch) order
VersionLower(s, t) ==
    \/ s[1] < t[1]
    \/ s[1] = t[1] /\ s[2] < t[2]
    \/ s[1] = t[1] /\ s[2] = t[2] /\ s[3] < t[3]

-----------------------------------------------------------------------------
(* Properties *)

\* C1: a run that follows a completed run over the same directory ends
\* with changed=false, does not increment the version and writes nothing, so
\* the manifest stays as the first run left it.
C1_SecondRunChangesNothing ==
    [][(/\ last.ran
        /\ last.outcome \in {"written", "unchanged"}
        /\ last'.ran
        /\ directory' = directory)
       => (last'.outcome = "unchanged" /\ manifest' = manifest)]_vars

\* the values a run gives the entry of a contract: for every key, the value
\* of the last valid record of the directory with that contract that has
\* the key, and the value of the entry `before` for the other keys
ValidCarriers(contract) ==
    { n \in DOMAIN directory :
        /\ IsValidRecord(directory[n])
        /\ Get(readJsonFile(directory[n]), "contract") = contract }

LastWith(contract, key) ==
    LET having == { n \in ValidCarriers(contract) :
                        key \in DOMAIN readJsonFile(directory[n]) }
    IN  IF having = {} THEN 0
        ELSE CHOOSE n \in having : \A m \in having : m <= n

MergedValue(before, contract, key) ==
    IF LastWith(contract, key) = 0 THEN Get(before, key)
    ELSE readJsonFile(directory[LastWith(contract, key)])[key]

\* C2: after a run, every valid record of the directory whose contract no
\* entry of the existing manifest had is in the written manifest, under its
\* contract and with its field values (those of the last valid record of that
\* contract, where several records share it), and the run ended with
\* changed=true, the manifest written.
C2_NewRecordWritten ==
    last.ran =>
        \A n \in DOMAIN directory :
            LET R == readJsonFile(directory[n])
            IN  (/\ IsValidRecord(directory[n])
                 /\ "contract" \in DOMAIN R
                 /\ R.contract \notin ContractsOf(last.pre.assets))
                => /\ last.outcome = "written"
                   /\ HasEntry(manifest.assets, R.contract)
                   /\ \A key \in DOMAIN R :
                        Get(EntryOf(manifest.assets, R.contract), key)
                            = MergedValue(<< >>, R.contract, key)

C4_SaturatingIncrement ==
    last.outcome = "written" =>
        LET in == Triple(last.pre.version)
            out == Triple(manifest.version)
        IN  /\ in = <<MaxMajor, MaxPart, MaxPart>> => out = in
            /\ in # <<MaxMajor, MaxPart, MaxPart>>
                    => out = Carry(in[1], in[2], in[3])
            /\ ~VersionLower(out, in)

\* consecutive entries that both have a contract are in code-unit order
SortedByContract(assets) ==
    \A i, j \in DOMAIN assets :
        (i < j /\ HasContract(assets[i]) /\ HasContract(assets[j]))
            => CodeUnitLeq(assets[i].contract, assets[j].contract)

\* C5: a run that reaches the write step with changed=true writes the
\* manifest, and the assets written are in ascending code-unit order of
\* their contracts, also when entries or valid records have no contract.
C5_ChangedRunWritesSorted ==
    (last.ran /\ last.outcome # "readThrown" /\ Reconciled.changesDetected)
        => /\ last.outcome = "written"
           /\ SortedByContract(manifest.assets)

\* the identity of a record: its contract, or its code and issuer when it has
\* no contract
Identity(asset) ==
    IF HasContract(asset) THEN <<asset.contract>>
    ELSE <<Get(asset, "code"), Get(asset, "issuer")>>

\* C6: after any sequence of runs no two entries of the manifest share a
\* contract, and every valid record of the directory of the most recent
\* completed run is represented by an entry of its own identity.
C6_OneEntryPerAsset ==
    /\ \A i, j \in DOMAIN manifest.assets :
            (i # j /\ HasContract(manifest.assets[i]))
                => manifest.assets[i].contract
                        # Get(manifest.assets[j], "contract")
    /\ last.outcome \in {"written", "unchanged"} =>
            \A n \in DOMAIN directory :
                IsValidRecord(directory[n]) =>
                    \E i \in DOMAIN manifest.assets :
                        Identity(manifest.assets[i])
                            = Identity(readJsonFile(directory[n]))

\* the directory without the files that cannot be read or parsed
Readable == SelectSeq(directory, LAMBDA file : ~ReadThrows(file))

\* C7: a file that cannot be read or parsed does not abort the run: the run
\* ends as it does over the other files, which are still reconciled, with
\* the deletions computed and the manifest written when they bring a change.
C7_UnreadableFileSkipped ==
    (last.ran /\ \E n \in DOMAIN directory : ReadThrows(directory[n]))
        => /\ last.outcome # "readThrown"
           /\ Reconcile(last.pre.assets, Readable).changesDetected
                    => last.outcome \in {"written", "sortThrown"}


\* the directory brings nothing but invalid records that the manifest does
\* not have: its valid records are the entries of the manifest, and every
\* other file is a record that fails validation
OnlyInvalidDiffer ==
    /\ \A n \in DOMAIN directory :
            /\ IsRecord(directory[n])
            /\ IsValidRecord(directory[n]) =>
                    \E i \in DOMAIN last.pre.assets :
                        last.pre.assets[i] = readJsonFile(directory[n])
    /\ \A i \in DOMAIN last.pre.assets :
            \E n \in DOMAIN directory :
                /\ IsValidRecord(directory[n])
                /\ readJsonFile(directory[n]) = last.pre.assets[i]

\* C8: a record that fails validation is skipped and the run goes on: the
\* step of the loop over it leaves the assets and the changed flag as they
\* were and throws nothing, and a run over a directory that differs from the
\* manifest only by invalid records ends unchanged, nothing written.
C8_InvalidRecordSkipped ==
    last.ran =>
        /\ \A n \in DOMAIN directory :
                (IsInvalidRecord(directory[n]) /\ ~LoopAt(n - 1).thrown)
                    => /\ LoopAt(n).assets = LoopAt(n - 1).assets
                       /\ LoopAt(n).changesDetected
                                = LoopAt(n - 1).changesDetected
                       /\ ~LoopAt(n).thrown
        /\ (OnlyInvalidDiffer
                /\ \E n \in DOMAIN directory : IsInvalidRecord(directory[n]))
                => /\ last.outcome = "unchanged"
                   /\ manifest = last.pre

\* C8 witness: a run over the entries of a non-empty manifest and invalid
\* records, one of them with the contract of an entry but other values, has
\* ended unchanged.
C8_Witness ==
    /\ last.ran /\ last.outcome = "unchanged"
    /\ last.pre.assets # << >>
    /\ OnlyInvalidDiffer
    /\ \E n \in DOMAIN directory :
            /\ IsInvalidRecord(directory[n])
            /\ HasEntry(manifest.assets,
                        Get(readJsonFile(directory[n]), "contract"))
            /\ HasChanged(readJsonFile(directory[n]),
                          EntryOf(manifest.assets,
                                  Get(readJsonFile(directory[n]), "contract")))

WithContract ==
    SelectSeq(directory,
              LAMBDA file : ~IsRecord(file)
                            \/ "contract" \in DOMAIN readJsonFile(file))

ValidWithoutContract ==
    { n \in DOMAIN directory :
        /\ IsValidRecord(directory[n])
        /\ "contract" \notin DOMAIN readJsonFile(directory[n]) }

\* C10: the value `undefined` is never among the contracts seen in the
\* directory: the records without a contract have no part in which entries
\* of the existing manifest a run deletes, and two valid records without a
\* contract are two assets of the reconciled list.
C10_NoContractNeverSeen ==
    (last.ran /\ last.outcome # "readThrown") =>
        /\ Undefined \notin Reconciled.contractsInDirectory
        /\ ContractsToDelete(last.pre.assets, Reconciled.contractsInDirectory)
            = ContractsToDelete(last.pre.assets,
                Reconcile(last.pre.assets, WithContract).contractsInDirectory)
        /\ \A n, m \in ValidWithoutContract :
                Identity(readJsonFile(directory[n]))
                        # Identity(readJsonFile(directory[m]))
                    => \E i, j \in DOMAIN Reconciled.assets :
                            /\ i # j
                            /\ ~HasContract(Reconciled.assets[i])
                            /\ ~HasContract(Reconciled.assets[j])

====
